---- MODULE Spec2Model ----
(***************************************************************************)
(* Vertical Car Runner (src/game.js): the run state kept by the closure,   *)
(* the frame callback gameLoop/update and the keyboard and pointer         *)
(* handlers.                                                               *)
(*                                                                         *)
(* Lengths are counted in half pixels (U of them per pixel), so that the   *)
(* speed, which grows by 0.5 px, and every y position are integers; every  *)
(* quotient the code takes (canvas.width / laneCount, laneWidth * (i+0.5), *)
(* height / 2, (a.width + b.width) / 2) is exact in that unit.  Times are  *)
(* milliseconds of performance.now().  Colours, dashOffset and lastTime    *)
(* only feed draw() and are left out.                                      *)
(***************************************************************************)
EXTENDS Integers, Sequences, FiniteSets, TLC

\* ------------------------------------------------------------ constants
U == 2                                   \* half pixels per pixel (speed += 0.5)
canvasWidth == 360 * U
canvasHeight == 640 * U
carWidth == 60 * U
carHeight == 100 * U
carBottomGap == 120 * U                  \* car.y = canvas.height - 120
obstacleWidth == 80 * U
obstacleHeight == 80 * U
baseSpeed == 3 * U                       \* speed = 3.0
speedStep == 1                           \* speed += 0.5, in half pixels
speedInterval == 5000
spawnObstacleInterval == 1000
scoreThreshold == 60
initialLaneCount == 3
extraLaneCount == 4
startLane == 1
extraObstaclesPerSpawn == 2

\* ------------------------------------------------------------ bounds
MaxNow == 10000                          \* last clock value of Spec
MaxNowLate == 61000                      \* last clock value of SpecLate
MaxBatches == 1                          \* batches on the road when the clock may reach a spawn, Spec
MaxNowLive == 5000                       \* last clock value of SpecLive
MaxSpawned == 1                          \* obstacles of one run followed by the progress property
MaxBatchesLate == 2                      \* the same, SpecLate
Deltas == {0, 5000, 10000}               \* time between two frames, Spec
LateDeltas == {0, 1000}                  \* time between two frames, SpecLate
GateDeltas == {0, spawnObstacleInterval - 1, spawnObstacleInterval}   \* SpecGate
Keys == {"ArrowLeft", "ArrowRight", " "}
PointerXs == {0, canvasWidth \div 2, canvasWidth - U}

VARIABLES
  now,                \* performance.now()
  localStorage,       \* the origin's storage: a set of <<key, string>> pairs
  laneCount, lanesX, car, obstacles, speed,
  lastObstacleSpawn, lastSpeedIncrease,
  score, highScore, gameOver, extraLaneAdded, obstaclesPerSpawn,
  frameRequested,     \* a gameLoop callback is pending (requestAnimationFrame)
  \* history variables, read by no operation of the program
  runStart,           \* clock value at the initGame of this run
  loaded,             \* high score initGame read at the start of this run
  saves,              \* localStorage.setItem calls of this run
  prunedScored,       \* obstacles of this run removed with scored = true
  prunedUnscored      \* obstacles of this run removed with scored = false

vars == <<now, localStorage, laneCount, lanesX, car, obstacles, speed,
          lastObstacleSpawn, lastSpeedIncrease, score, highScore, gameOver,
          extraLaneAdded, obstaclesPerSpawn, frameRequested,
          runStart, loaded, saves, prunedScored, prunedUnscored>>

\* the variables initGame and update own, as one record
G == [laneCount |-> laneCount, lanesX |-> lanesX, car |-> car,
      obstacles |-> obstacles, speed |-> speed,
      lastObstacleSpawn |-> lastObstacleSpawn,
      lastSpeedIncrease |-> lastSpeedIncrease,
      score |-> score, highScore |-> highScore, gameOver |-> gameOver,
      extraLaneAdded |-> extraLaneAdded,
      obstaclesPerSpawn |-> obstaclesPerSpawn,
      localStorage |-> localStorage,
      runStart |-> runStart, loaded |-> loaded, saves |-> saves,
      prunedScored |-> prunedScored, prunedUnscored |-> prunedUnscored]

SetG(g) ==
  /\ laneCount' = g.laneCount
  /\ lanesX' = g.lanesX
  /\ car' = g.car
  /\ obstacles' = g.obstacles
  /\ speed' = g.speed
  /\ lastObstacleSpawn' = g.lastObstacleSpawn
  /\ lastSpeedIncrease' = g.lastSpeedIncrease
  /\ score' = g.score
  /\ highScore' = g.highScore
  /\ gameOver' = g.gameOver
  /\ extraLaneAdded' = g.extraLaneAdded
  /\ obstaclesPerSpawn' = g.obstaclesPerSpawn
  /\ localStorage' = g.localStorage
  /\ runStart' = g.runStart
  /\ loaded' = g.loaded
  /\ saves' = g.saves
  /\ prunedScored' = g.prunedScored
  /\ prunedUnscored' = g.prunedUnscored

\* ------------------------------------------------------------ helpers
Abs(n) == IF n < 0 THEN -n ELSE n
Min(a, b) == IF a < b THEN a ELSE b
Max(a, b) == IF a > b THEN a ELSE b

\* Number.prototype.toString: the decimal digits of n >= 0, no leading zero
RECURSIVE toString(_)
toString(n) == IF n < 10 THEN <<n>> ELSE Append(toString(n \div 10), n % 10)

\* parseInt on a string of decimal digits
RECURSIVE parseInt(_)
parseInt(s) ==
  IF Len(s) = 1 THEN s[1]
  ELSE 10 * parseInt(SubSeq(s, 1, Len(s) - 1)) + s[Len(s)]

\* localStorage.getItem: <<>> stands for null, <<s>> for the string s
getItem(store, key) ==
  IF \E p \in store : p[1] = key
  THEN <<(CHOOSE p \in store : p[1] = key)[2]>>
  ELSE <<>>

\* localStorage.setItem
setItem(store, key, value) ==
  {p \in store : p[1] # key} \cup {<<key, value>>}

\* `stored ? parseInt(stored) : 0`: null and the empty string are falsy
loadHighScore(store) ==
  LET stored == getItem(store, "highScore")
  IN IF stored # <<>> /\ stored[1] # <<>> THEN parseInt(stored[1]) ELSE 0

\* computeLanes: lanesX[i + 1] is the code's lanesX[i]
computeLanes(lc) ==
  LET laneWidth == canvasWidth \div lc
  IN [i \in 1..lc |-> (laneWidth * (2 * (i - 1) + 1)) \div 2]

\* edges that touch count as an overlap
rectsIntersect_touching(a, b) ==
  /\ Abs(a.x - b.x) <= (a.width + b.width) \div 2
  /\ Abs(a.y - b.y) <= (a.height + b.height) \div 2

\* rectsIntersect(a, b)
rectsIntersect(a, b) ==
  /\ Abs(a.x - b.x) < (a.width + b.width) \div 2
  /\ Abs(a.y - b.y) < (a.height + b.height) \div 2

\* ------------------------------------------------------------ initGame
initGame(t, store) ==
  LET lx == computeLanes(initialLaneCount)
      hs == loadHighScore(store)
  IN [laneCount |-> initialLaneCount, lanesX |-> lx,
      car |-> [lane |-> startLane, x |-> lx[startLane + 1],
               y |-> canvasHeight - carBottomGap,
               width |-> carWidth, height |-> carHeight],
      obstacles |-> <<>>, speed |-> baseSpeed,
      lastObstacleSpawn |-> t, lastSpeedIncrease |-> t,
      score |-> 0, highScore |-> hs, gameOver |-> FALSE,
      extraLaneAdded |-> FALSE, obstaclesPerSpawn |-> 1,
      localStorage |-> store,
      runStart |-> t, loaded |-> hs, saves |-> 0,
      prunedScored |-> 0, prunedUnscored |-> 0]

\* ------------------------------------------------------------ spawning
spawnSingleObstacle(obs, lane, lx) ==
  Append(obs, [lane |-> lane, x |-> lx[lane + 1], y |-> -obstacleHeight,
               width |-> obstacleWidth, height |-> obstacleHeight,
               scored |-> FALSE])

\* the lane is read but left in the list
splice_keep(seq, idx) == seq

\* availableLanes.splice(idx, 1)
splice(seq, idx) ==
  SubSeq(seq, 1, idx) \o SubSeq(seq, idx + 2, Len(seq))

\* the picking loop of spawnObstacle; rnd[i] is the i-th
\* Math.floor(Math.random() * availableLanes.length)
RECURSIVE spawnLoop(_, _, _, _, _, _)
spawnLoop(obs, availableLanes, rnd, i, count, lx) ==
  IF i > count THEN obs
  ELSE LET idx == rnd[i]
           lane == availableLanes[idx + 1]
       IN spawnLoop(spawnSingleObstacle(obs, lane, lx),
                    splice(availableLanes, idx), rnd, i + 1, count, lx)

spawnCount(g) == Min(g.obstaclesPerSpawn, g.laneCount)

spawnObstacle(g, rnd) ==
  LET availableLanes == [i \in 1..g.laneCount |-> i - 1]
  IN [g EXCEPT !.obstacles =
        spawnLoop(g.obstacles, availableLanes, rnd, 1, spawnCount(g), g.lanesX)]

\* the outcomes Math.random can give the picking loop
Rnds(lc, count) ==
  {r \in [1..count -> 0..(lc - 1)] : \A i \in 1..count : r[i] < lc - (i - 1)}

\* ------------------------------------------------------------ update
\* `>` for `>=`
spawnDue_after(g, t) == t - g.lastObstacleSpawn > spawnObstacleInterval

spawnDue(g, t) == t - g.lastObstacleSpawn >= spawnObstacleInterval

spawnStep(g, t, rnd) ==
  IF spawnDue(g, t)
  THEN [spawnObstacle(g, rnd) EXCEPT !.lastObstacleSpawn = t]
  ELSE g

\* the timer is never reset
speedRamp_noReset(g, t) ==
  IF t - g.lastSpeedIncrease >= speedInterval
  THEN [g EXCEPT !.speed = @ + speedStep]
  ELSE g

speedRamp(g, t) ==
  IF t - g.lastSpeedIncrease >= speedInterval
  THEN [g EXCEPT !.speed = @ + speedStep, !.lastSpeedIncrease = t]
  ELSE g

\* credit as soon as the obstacle's lower edge is below the car's upper edge
passed_upperEdge(o, c) ==
  /\ ~o.scored
  /\ o.y + o.height \div 2 > c.y - c.height \div 2

\* credit again on every frame
passed_again(o, c) ==
  o.y - o.height \div 2 > c.y + c.height \div 2

\* `!o.scored && o.y - o.height / 2 > car.y + car.height / 2`, o already moved
passed(o, c) ==
  /\ ~o.scored
  /\ o.y - o.height \div 2 > c.y + c.height \div 2

\* an obstacle stops once it is scored
moveAndScore_parked(g) ==
  LET moved(o) == IF o.scored THEN o ELSE [o EXCEPT !.y = @ + g.speed]
      obs == g.obstacles
      credited == {i \in DOMAIN obs : passed(moved(obs[i]), g.car)}
  IN [g EXCEPT
        !.obstacles = [i \in DOMAIN obs |->
                         IF i \in credited
                         THEN [moved(obs[i]) EXCEPT !.scored = TRUE]
                         ELSE moved(obs[i])],
        !.score = @ + Cardinality(credited)]

\* obstacles.forEach: move, then score
moveAndScore(g) ==
  LET moved(o) == [o EXCEPT !.y = @ + g.speed]
      obs == g.obstacles
      credited == {i \in DOMAIN obs : passed(moved(obs[i]), g.car)}
  IN [g EXCEPT
        !.obstacles = [i \in DOMAIN obs |->
                         IF i \in credited
                         THEN [moved(obs[i]) EXCEPT !.scored = TRUE]
                         ELSE moved(obs[i])],
        !.score = @ + Cardinality(credited)]

\* the filter's test: o.y - o.height < canvas.height
onScreen(o) == o.y - o.height < canvasHeight

\* scored obstacles are dropped with the off-screen ones
prune_scored(g) ==
  LET stays(o) == onScreen(o) /\ ~o.scored
      gone == {i \in DOMAIN g.obstacles : ~stays(g.obstacles[i])}
  IN [g EXCEPT
        !.obstacles = SelectSeq(@, stays),
        !.prunedScored = @ + Cardinality({i \in gone : g.obstacles[i].scored}),
        !.prunedUnscored = @ + Cardinality({i \in gone : ~g.obstacles[i].scored})]

prune(g) ==
  LET gone == {i \in DOMAIN g.obstacles : ~onScreen(g.obstacles[i])}
  IN [g EXCEPT
        !.obstacles = SelectSeq(@, onScreen),
        !.prunedScored = @ + Cardinality({i \in gone : g.obstacles[i].scored}),
        !.prunedUnscored = @ + Cardinality({i \in gone : ~g.obstacles[i].scored})]

\* `>=` for `>`
triggerGameOver_orEqual(g) ==
  IF g.gameOver THEN g
  ELSE IF g.score >= g.highScore
       THEN [g EXCEPT !.gameOver = TRUE,
                      !.highScore = g.score,
                      !.localStorage = setItem(@, "highScore", toString(g.score)),
                      !.saves = @ + 1]
       ELSE [g EXCEPT !.gameOver = TRUE]

triggerGameOver(g) ==
  IF g.gameOver THEN g
  ELSE IF g.score > g.highScore
       THEN [g EXCEPT !.gameOver = TRUE,
                      !.highScore = g.score,
                      !.localStorage = setItem(@, "highScore", toString(g.score)),
                      !.saves = @ + 1]
       ELSE [g EXCEPT !.gameOver = TRUE]

\* the for loop with its break: the first overlap ends the run
collide(g) ==
  IF \E i \in DOMAIN g.obstacles : rectsIntersect(g.car, g.obstacles[i])
  THEN triggerGameOver(g)
  ELSE g

\* `>` for `>=`
escalationDue_above(g) == ~g.extraLaneAdded /\ g.score > scoreThreshold

escalationDue(g) == ~g.extraLaneAdded /\ g.score >= scoreThreshold

\* the car keeps the x it had on the three-lane road
escalate_keepX(g) ==
  IF escalationDue(g)
  THEN LET lx == computeLanes(extraLaneCount)
           lane == Min(g.car.lane, extraLaneCount - 1)
       IN [g EXCEPT !.laneCount = extraLaneCount,
                    !.lanesX = lx,
                    !.car = [@ EXCEPT !.lane = lane],
                    !.obstaclesPerSpawn = extraObstaclesPerSpawn,
                    !.extraLaneAdded = TRUE]
  ELSE g

escalate(g) ==
  IF escalationDue(g)
  THEN LET lx == computeLanes(extraLaneCount)
           lane == Min(g.car.lane, extraLaneCount - 1)
       IN [g EXCEPT !.laneCount = extraLaneCount,
                    !.lanesX = lx,
                    !.car = [@ EXCEPT !.lane = lane, !.x = lx[lane + 1]],
                    !.obstaclesPerSpawn = extraObstaclesPerSpawn,
                    !.extraLaneAdded = TRUE]
  ELSE g

\* the escalation check run with the speed ramp, ahead of move and score
update_escalateFirst(g, t, rnd) ==
  collide(prune(moveAndScore(escalate(speedRamp(spawnStep(g, t, rnd), t)))))

\* the statements of update in their order; each intermediate state is bound
\* to its value before the next statement reads it
update(g, t, rnd) ==
  CHOOSE result \in
    {escalate(collided) : collided \in
      {collide(pruned) : pruned \in
        {prune(moved) : moved \in
          {moveAndScore(ramped) : ramped \in
            {speedRamp(spawned, t) : spawned \in
              {spawnStep(g, t, rnd)}}}}}} : TRUE

\* the part of update that runs when the setItem call of triggerGameOver
\* throws: spawn, ramp, move, score and prune are done, gameOver and highScore
\* are assigned, the storage keeps what it had and the escalation check is
\* never reached
beforeCollide(g, t, rnd) ==
  prune(moveAndScore(speedRamp(spawnStep(g, t, rnd), t)))

\* the collision loop calls triggerGameOver, which calls setItem
saveDue(g, t, rnd) ==
  LET g1 == beforeCollide(g, t, rnd)
  IN /\ \E i \in DOMAIN g1.obstacles : rectsIntersect(g1.car, g1.obstacles[i])
     /\ ~g1.gameOver
     /\ g1.score > g1.highScore

updateThrows(g, t, rnd) ==
  LET g1 == beforeCollide(g, t, rnd)
  IN [g1 EXCEPT !.gameOver = TRUE,
                !.highScore = g1.score,
                !.saves = @ + 1]

\* ------------------------------------------------------------ input
\* x taken from the lane the car is leaving
moveLane_oldX(g, direction) ==
  LET newLane == Min(Max(g.car.lane + direction, 0), g.laneCount - 1)
  IN IF newLane # g.car.lane
     THEN [g EXCEPT !.car = [@ EXCEPT !.lane = newLane,
                                      !.x = g.lanesX[g.car.lane + 1]]]
     ELSE g

moveLane(g, direction) ==
  LET newLane == Min(Max(g.car.lane + direction, 0), g.laneCount - 1)
  IN IF newLane # g.car.lane
     THEN [g EXCEPT !.car = [@ EXCEPT !.lane = newLane,
                                      !.x = g.lanesX[newLane + 1]]]
     ELSE g

\* the space key restarts whether or not the run is over
keydown_spaceAnytime(g, key, t) ==
  LET g1 == IF ~g.gameOver
            THEN IF key = "ArrowLeft" THEN moveLane(g, -1)
                 ELSE IF key = "ArrowRight" THEN moveLane(g, 1)
                 ELSE g
            ELSE g
  IN IF key = " " THEN initGame(t, g1.localStorage) ELSE g1

keydown(g, key, t) ==
  LET g1 == IF ~g.gameOver
            THEN IF key = "ArrowLeft" THEN moveLane(g, -1)
                 ELSE IF key = "ArrowRight" THEN moveLane(g, 1)
                 ELSE g
            ELSE g
  IN IF g1.gameOver /\ key = " " THEN initGame(t, g1.localStorage) ELSE g1

\* the restart leaves the road as the escalation made it
pointerdown_keepLanes(g, pointerX, t) ==
  IF ~g.gameOver
  THEN IF pointerX < g.car.x THEN moveLane(g, -1) ELSE moveLane(g, 1)
  ELSE [initGame(t, g.localStorage) EXCEPT !.laneCount = g.laneCount,
                                           !.lanesX = g.lanesX]

pointerdown(g, pointerX, t) ==
  IF ~g.gameOver
  THEN IF pointerX < g.car.x THEN moveLane(g, -1) ELSE moveLane(g, 1)
  ELSE initGame(t, g.localStorage)

\* update called on every frame
gameLoop_always(g, t, rnd) == update(g, t, rnd)

\* gameLoop: `if (!gameOver) update(delta)`
gameLoop(g, t, rnd) == IF ~g.gameOver THEN update(g, t, rnd) ELSE g

\* ------------------------------------------------------------ actions
Batches == {obstacles[i].y : i \in DOMAIN obstacles}

\* one animation frame, d ms after the previous one
Frame(d, horizon, batches) ==
  /\ frameRequested
  /\ now + d <= horizon
  /\ (~gameOver /\ spawnDue(G, now + d)) => Cardinality(Batches) < batches
  /\ now' = now + d
  /\ \E rnd \in (IF ~gameOver /\ spawnDue(G, now + d)
                 THEN Rnds(laneCount, spawnCount(G)) ELSE {<<>>}) :
       \E g \in {gameLoop(G, now + d, rnd)} : SetG(g)
  /\ frameRequested' = TRUE

\* an animation frame in which localStorage.setItem throws (storage full or
\* refused): nothing catches, so the exception leaves triggerGameOver, update
\* and gameLoop at once; draw() and requestAnimationFrame(gameLoop) are not
\* reached
FrameThrows(d, horizon, batches) ==
  /\ frameRequested /\ ~gameOver
  /\ now + d <= horizon
  /\ spawnDue(G, now + d) => Cardinality(Batches) < batches
  /\ now' = now + d
  /\ \E rnd \in (IF spawnDue(G, now + d)
                 THEN Rnds(laneCount, spawnCount(G)) ELSE {<<>>}) :
       /\ saveDue(G, now + d, rnd)
       /\ SetG(updateThrows(G, now + d, rnd))
  /\ frameRequested' = FALSE

KeyDown(key) ==
  /\ now' = now
  /\ SetG(keydown(G, key, now))
  /\ UNCHANGED frameRequested

PointerDown(pointerX) ==
  /\ now' = now
  /\ SetG(pointerdown(G, pointerX, now))
  /\ UNCHANGED frameRequested

Input ==
  \/ \E key \in Keys : KeyDown(key)
  \/ \E pointerX \in PointerXs : PointerDown(pointerX)

\* what an earlier visit may have left under the key
Stores == {{}, {<<"highScore", toString(scoreThreshold - 1)>>}}

\* the script has just run: initGame(), then the first frame is requested
Init ==
  /\ now = 0
  /\ \E store \in Stores : \E g \in {initGame(0, store)} :
       /\ laneCount = g.laneCount
       /\ lanesX = g.lanesX
       /\ car = g.car
       /\ obstacles = g.obstacles
       /\ speed = g.speed
       /\ lastObstacleSpawn = g.lastObstacleSpawn
       /\ lastSpeedIncrease = g.lastSpeedIncrease
       /\ score = g.score
       /\ highScore = g.highScore
       /\ gameOver = g.gameOver
       /\ extraLaneAdded = g.extraLaneAdded
       /\ obstaclesPerSpawn = g.obstaclesPerSpawn
       /\ localStorage = g.localStorage
       /\ runStart = g.runStart
       /\ loaded = g.loaded
       /\ saves = g.saves
       /\ prunedScored = g.prunedScored
       /\ prunedUnscored = g.prunedUnscored
  /\ frameRequested = TRUE

Next ==
  \/ \E d \in Deltas : Frame(d, MaxNow, MaxBatches)
  \/ Input

Spec == Init /\ [][Next]_vars

\* A run 59 s old: frames came at every full second and, with the clock
\* standing still, often enough in between to carry each obstacle off the
\* road before the next one; the player dodged all 59.  The speed has been
\* raised 11 times, last at 55 s; the last spawn was at 59 s.
lateScore == scoreThreshold - 1
lateRamps == (lateScore * spawnObstacleInterval) \div speedInterval
InitLate ==
  /\ now = lateScore * spawnObstacleInterval
  /\ \E store \in Stores : \E lane \in 0..(initialLaneCount - 1) :
       \E g \in {initGame(0, store)} :
       /\ laneCount = g.laneCount
       /\ lanesX = g.lanesX
       /\ car = [g.car EXCEPT !.lane = lane, !.x = g.lanesX[lane + 1]]
       /\ obstacles = <<>>
       /\ speed = baseSpeed + lateRamps * speedStep
       /\ lastObstacleSpawn = lateScore * spawnObstacleInterval
       /\ lastSpeedIncrease = lateRamps * speedInterval
       /\ score = lateScore
       /\ highScore = g.highScore
       /\ gameOver = FALSE
       /\ extraLaneAdded = FALSE
       /\ obstaclesPerSpawn = g.obstaclesPerSpawn
       /\ localStorage = store
       /\ runStart = 0
       /\ loaded = g.loaded
       /\ saves = 0
       /\ prunedScored = lateScore
       /\ prunedUnscored = 0
  /\ frameRequested = TRUE

NextLate ==
  \/ \E d \in LateDeltas : Frame(d, MaxNowLate, MaxBatchesLate)
  \/ Input

SpecLate == InitLate /\ [][NextLate]_vars

\* gameLoop ends by requesting the next frame (line 284), so frames keep
\* coming for as long as one is requested
NextLive ==
  \/ \E d \in Deltas : Frame(d, MaxNowLive, MaxBatches)
  \/ Input

SpecLive ==
  /\ Init /\ [][NextLive]_vars
  /\ WF_vars(\E d \in Deltas : Frame(d, MaxNowLive, MaxBatches))

\* the same run, with frames that also come 1 ms short of the spawn interval
NextGate ==
  \/ \E d \in GateDeltas : Frame(d, MaxNowLate, MaxBatchesLate)
  \/ Input

SpecGate == InitLate /\ [][NextGate]_vars

\* A run 2270 s old, played like the one above: frames at every full second
\* and in between, every batch dodged.  The speed has been raised 454 times,
\* to 230 px per frame: the lowest speed at which the third move of an
\* obstacle takes it from above the car's band (y <= 430) to its lower end
\* (y >= 610).  The lane was added at score 60; 2210 batches of two followed.
fastSpeed ==
  (canvasHeight - carBottomGap + (carHeight + obstacleHeight) \div 2
     + obstacleHeight) \div 3
fastRamps == (fastSpeed - baseSpeed) \div speedStep
fastNow == fastRamps * speedInterval
fastScore ==
  scoreThreshold
    + extraObstaclesPerSpawn * (fastNow \div spawnObstacleInterval - scoreThreshold)
MaxNowFast == fastNow + spawnObstacleInterval
InitFast ==
  /\ now = fastNow
  /\ \E store \in Stores : \E lane \in 0..(extraLaneCount - 1) :
       \E g \in {initGame(0, store)} :
       /\ laneCount = extraLaneCount
       /\ lanesX = computeLanes(extraLaneCount)
       /\ car = [g.car EXCEPT !.lane = lane,
                              !.x = computeLanes(extraLaneCount)[lane + 1]]
       /\ obstacles = <<>>
       /\ speed = fastSpeed
       /\ lastObstacleSpawn = fastNow
       /\ lastSpeedIncrease = fastNow
       /\ score = fastScore
       /\ highScore = g.highScore
       /\ gameOver = FALSE
       /\ extraLaneAdded = TRUE
       /\ obstaclesPerSpawn = extraObstaclesPerSpawn
       /\ localStorage = store
       /\ runStart = 0
       /\ loaded = g.loaded
       /\ saves = 0
       /\ prunedScored = fastScore
       /\ prunedUnscored = 0
  /\ frameRequested = TRUE

NextFast ==
  \/ \E d \in LateDeltas : Frame(d, MaxNowFast, MaxBatchesLate)
  \/ Input

SpecFast == InitFast /\ [][NextFast]_vars

\* the storage may refuse the write of the high score
NextFail ==
  \/ \E d \in Deltas : Frame(d, MaxNow, MaxBatches)
  \/ \E d \in Deltas : FrameThrows(d, MaxNow, MaxBatches)
  \/ Input

SpecFail == Init /\ [][NextFail]_vars


\* ------------------------------------------------------------ steps
Restarted == gameOver /\ ~gameOver'
FrameStep == \E d \in Deltas : Frame(d, MaxNow, MaxBatches)
FrameStepLate == \E d \in LateDeltas : Frame(d, MaxNowLate, MaxBatchesLate)
FrameStepGate == \E d \in GateDeltas : Frame(d, MaxNowLate, MaxBatchesLate)
FrameStepFast == \E d \in LateDeltas : Frame(d, MaxNowFast, MaxBatchesLate)
Spawned == Len(obstacles) + prunedScored + prunedUnscored
RunVars == <<localStorage, laneCount, lanesX, car, obstacles, speed,
             lastObstacleSpawn, lastSpeedIncrease, score, highScore, gameOver,
             extraLaneAdded, obstaclesPerSpawn>>
Elapsed == now - runStart
Centered(e) == e.lane + 1 \in DOMAIN lanesX /\ e.x = lanesX[e.lane + 1]
SameColumn(o) == Abs(car.x - o.x) < (car.width + o.width) \div 2

\* ------------------------------------------------------------ claims

\* C1: no obstacle is both credited as scored and overlapping the car: in
\* every state, after every step and every lane shift made between steps, an
\* obstacle whose scored flag is set does not intersect the car.
C1_ScoredNeverOverlaps ==
  \A i \in DOMAIN obstacles :
    obstacles[i].scored => ~rectsIntersect(car, obstacles[i])

\* a scored obstacle is still on the road and the car stands in its column
C1_Witness ==
  \E i \in DOMAIN obstacles : obstacles[i].scored /\ SameColumn(obstacles[i])

\* C2: extraLaneAdded is true exactly when the score has reached 60; it flips
\* false -> true only in the step that takes the score from below 60 to 60 or
\* more, and once it is true laneCount, obstaclesPerSpawn and the flag stay as
\* they are until a restart.
C2_OneShotEscalation ==
  /\ [](extraLaneAdded <=> score >= scoreThreshold)
  /\ [][(extraLaneAdded' # extraLaneAdded /\ ~Restarted)
          => (~extraLaneAdded /\ score < scoreThreshold
              /\ score' >= scoreThreshold)]_vars
  /\ [][(extraLaneAdded /\ ~Restarted)
          => UNCHANGED <<laneCount, obstaclesPerSpawn, extraLaneAdded>>]_vars

\* the escalation has fired and a frame has moved a later batch since
C2_Witness ==
  /\ extraLaneAdded /\ laneCount = extraLaneCount
  /\ Len(obstacles) >= extraObstaclesPerSpawn

\* C3: in every reachable state the car and every live obstacle have
\* x = lanesX[lane] for the current lane centers.
C3_EntitiesCentered ==
  /\ Centered(car)
  /\ \A i \in DOMAIN obstacles : Centered(obstacles[i])

\* C4 as claimed: while the run is on, speed = 3.0 + 0.5 * floor(T / 5000).
C4_SpeedFormula ==
  ~gameOver => speed = baseSpeed + speedStep * (Elapsed \div speedInterval)

\* C4 as amended: while the run is on, the speed is at least 3.0, at most
\* 3.0 + 0.5 * floor(T / 5000), above 3.0 once T >= 5000, the ramp timer is
\* less than 5000 ms old, and the speed never decreases within a run.
C4_SpeedBounded ==
  /\ [](~gameOver =>
         /\ speed >= baseSpeed
         /\ speed <= baseSpeed + speedStep * (Elapsed \div speedInterval)
         /\ (Elapsed >= speedInterval => speed > baseSpeed)
         /\ now - lastSpeedIncrease < speedInterval)
  /\ [][~Restarted => speed' >= speed]_vars

\* a frame came late: the speed is below the claimed formula
C4_Witness ==
  /\ ~gameOver /\ speed > baseSpeed
  /\ speed < baseSpeed + speedStep * (Elapsed \div speedInterval)

\* C5: the high score is written at game-over iff the final score exceeds the
\* high score loaded at the start of the run, at most once per run, and the
\* persisted value never decreases.
C5_HighScoreMonotonic ==
  /\ [](/\ saves <= 1
        /\ ~gameOver => (saves = 0 /\ loadHighScore(localStorage) = loaded)
        /\ gameOver => (saves = 1 <=> score > loaded)
        /\ gameOver => loadHighScore(localStorage) = Max(loaded, score))
  /\ [][loadHighScore(localStorage') >= loadHighScore(localStorage)]_vars
  /\ [][localStorage' # localStorage
          => (~gameOver /\ gameOver' /\ score' > loaded
              /\ getItem(localStorage', "highScore") = <<toString(score')>>)]_vars

\* a run ended above a high score left by an earlier visit and wrote its score
C5_Witness ==
  /\ gameOver /\ saves = 1 /\ loaded > 0 /\ score > loaded
  /\ loadHighScore(localStorage) = score

\* C6: the car's lane is always in [0, laneCount - 1] with x at that lane's
\* center; a lane shift moves the car one lane in its direction, or changes
\* nothing when that would leave the range.
LaneShift(dir) ==
  /\ ~gameOver
  /\ \/ dir = -1 /\ KeyDown("ArrowLeft")
     \/ dir = 1 /\ KeyDown("ArrowRight")
     \/ \E pointerX \in PointerXs :
          /\ dir = (IF pointerX < car.x THEN -1 ELSE 1)
          /\ PointerDown(pointerX)

C6_LaneClamp ==
  /\ [](car.lane \in 0..(laneCount - 1) /\ car.x = lanesX[car.lane + 1])
  /\ [][\A dir \in {-1, 1} :
          LaneShift(dir) =>
            /\ car'.lane = (IF car.lane + dir \in 0..(laneCount - 1)
                            THEN car.lane + dir ELSE car.lane)
            /\ car'.x = lanesX[car'.lane + 1]
            /\ UNCHANGED <<laneCount, lanesX, obstacles, score, gameOver>>]_vars

\* after the escalation the car has been shifted into the added lane
C6_Witness ==
  ~gameOver /\ laneCount = extraLaneCount /\ car.lane = extraLaneCount - 1

\* C7: a step that spawns puts exactly min(obstaclesPerSpawn, laneCount) new
\* obstacles on the road, in pairwise distinct lanes of [0, laneCount).
Fresh(obs, v) == {i \in DOMAIN obs : obs[i].y = v - obstacleHeight}

C7_DistinctLaneBatch ==
  [][(lastObstacleSpawn' # lastObstacleSpawn /\ ~Restarted) =>
       LET batch == Fresh(obstacles', speed')
       IN /\ Cardinality(batch) = Min(obstaclesPerSpawn, laneCount)
          /\ \A i \in batch : obstacles'[i].lane \in 0..(laneCount - 1)
          /\ \A i, j \in batch :
               i # j => obstacles'[i].lane # obstacles'[j].lane]_vars

\* a batch of two has been spawned on the four-lane road
C7_Witness ==
  /\ laneCount = extraLaneCount
  /\ \E i, j \in DOMAIN obstacles :
       /\ i # j /\ obstacles[i].y = obstacles[j].y
       /\ obstacles[i].lane # obstacles[j].lane
       /\ Centered(obstacles[i]) /\ Centered(obstacles[j])

\* C8: the score equals the number of obstacles of the run whose scored flag
\* has been set, live or pruned, and no obstacle is pruned unscored.
C8_ScoreCountsScored ==
  /\ score = Cardinality({i \in DOMAIN obstacles : obstacles[i].scored})
               + prunedScored
  /\ prunedUnscored = 0

\* one scored obstacle has been pruned and another scored one is still live
C8_Witness ==
  /\ prunedScored >= 1
  /\ \E i \in DOMAIN obstacles : obstacles[i].scored

\* C9 as claimed: the escalation check of a step reads the score as it stood
\* before that step's move and scoring.
C9_EscalationBeforeScoring ==
  [][(~extraLaneAdded /\ extraLaneAdded') => score >= scoreThreshold]_vars

\* C9 as amended: a step runs spawn -> speed ramp -> move -> score -> prune
\* -> collide -> escalation check: a new batch has already been moved by the
\* ramped speed, the score grows by the obstacles the move carried past the
\* car, the run ends iff an obstacle left by the prune overlaps the car where
\* it stood before the step, and the escalation reads the score after scoring.
C9_StepOrder ==
  [][(~gameOver /\ FrameStepLate) =>
       /\ speed' = (IF now' - lastSpeedIncrease >= speedInterval
                    THEN speed + speedStep ELSE speed)
       /\ (now' - lastObstacleSpawn >= spawnObstacleInterval)
            => Cardinality(Fresh(obstacles', speed'))
                 = Min(obstaclesPerSpawn, laneCount)
       /\ score' = score + Cardinality({i \in DOMAIN obstacles :
                     /\ ~obstacles[i].scored
                     /\ obstacles[i].y + speed' - obstacleHeight \div 2
                          > car.y + carHeight \div 2})
       /\ \A i \in DOMAIN obstacles' : onScreen(obstacles'[i])
       /\ gameOver' <=> \E i \in DOMAIN obstacles' :
                          rectsIntersect(car, obstacles'[i])
       /\ extraLaneAdded' <=> score' >= scoreThreshold]_vars

\* the step that took the score to 60 has also added the lane
C9_Witness ==
  /\ score = scoreThreshold /\ extraLaneAdded
  /\ \E i \in DOMAIN obstacles :
       /\ obstacles[i].scored
       /\ obstacles[i].y - speed - obstacleHeight \div 2
            <= car.y + carHeight \div 2

\* C10: while gameOver is true, frames and lane-shift keys leave the run state
\* unchanged, and gameOver becomes false again only by a restart command (the
\* space key or a pointer press).
C10_GameOverFrozen ==
  /\ [][(gameOver /\ (FrameStep \/ KeyDown("ArrowLeft") \/ KeyDown("ArrowRight")))
          => UNCHANGED RunVars]_vars
  /\ [][Restarted
          => (KeyDown(" ") \/ \E pointerX \in PointerXs : PointerDown(pointerX))]_vars

\* the run is over and the clock has since passed a spawn interval
C10_Witness ==
  /\ gameOver
  /\ now - lastObstacleSpawn >= spawnObstacleInterval
  /\ now - lastSpeedIncrease >= speedInterval

\* C11: a restart is a full reset made in one step, from any game-over state,
\* an escalated one included: three lanes centered at 60, 180 and 300, the
\* car in lane 1 at x = 180, no obstacles, speed 3.0, score 0, one obstacle
\* per spawn, extraLaneAdded and gameOver false, both timers at the time of
\* the restart, and highScore the value persisted in the storage.
C11_RestartResets ==
  [][Restarted =>
       /\ laneCount' = 3
       /\ lanesX' = <<60 * U, 180 * U, 300 * U>>
       /\ car'.lane = 1 /\ car'.x = 180 * U /\ car'.y = car.y
       /\ obstacles' = <<>>
       /\ speed' = 3 * U
       /\ score' = 0
       /\ obstaclesPerSpawn' = 1
       /\ ~extraLaneAdded' /\ ~gameOver'
       /\ lastObstacleSpawn' = now' /\ lastSpeedIncrease' = now'
       /\ localStorage' = localStorage
       /\ highScore' = loadHighScore(localStorage)]_vars

\* a run that had escalated was restarted: the road is back to three lanes
\* and the high score read back is the one that run saved
C11_Witness ==
  /\ ~gameOver /\ runStart > 0 /\ score = 0
  /\ laneCount = initialLaneCount /\ ~extraLaneAdded
  /\ highScore >= scoreThreshold

\* C12: the escalation step sets laneCount to 4 and the lane centers to 45,
\* 135, 225 and 315, keeps the car's lane index, which is at most 2, moves
\* car.x to that lane's new center, sets obstaclesPerSpawn to 2 and
\* extraLaneAdded to true; in every state (laneCount, obstaclesPerSpawn,
\* extraLaneAdded) is (3, 1, false) or (4, 2, true).
C12_EscalationEffect ==
  /\ [](<<laneCount, obstaclesPerSpawn, extraLaneAdded>>
          \in {<<3, 1, FALSE>>, <<4, 2, TRUE>>})
  /\ [][(~extraLaneAdded /\ extraLaneAdded') =>
          /\ laneCount' = 4
          /\ lanesX' = <<45 * U, 135 * U, 225 * U, 315 * U>>
          /\ car.lane <= 2 /\ car'.lane = car.lane
          /\ car'.x = lanesX'[car.lane + 1]
          /\ obstaclesPerSpawn' = 2]_vars

\* the step that added the lane has just run with the car in lane 2: the car
\* stands at 225, the new center of that lane
C12_Witness ==
  /\ extraLaneAdded /\ score = scoreThreshold
  /\ car.lane = 2 /\ car.x = 225 * U
  /\ \E i \in DOMAIN obstacles :
       obstacles[i].scored /\ obstacles[i].y - speed <= car.y + 90 * U

\* C13: a failed write of the high score at game-over is not fatal: the run
\* still ends with gameOver = true, its score intact and reported as the high
\* score, and frames keep being processed, so that a later restart starts a
\* run that plays: whenever the write of this run has failed, the run is over
\* and the next frame is requested.
SaveFailed == saves = 1 /\ loadHighScore(localStorage) # highScore

C13_FailedSaveNonFatal ==
  SaveFailed => (gameOver /\ highScore = score /\ frameRequested)

\* C14: a step sets gameOver to true iff, after that step's move and prune,
\* some live obstacle o has |car.x - o.x| < (car.width + o.width) / 2 and
\* |car.y - o.y| < (car.height + o.height) / 2; no other step ends a run; and
\* from then until the restart highScore >= score.
C14_CollisionEndsRun ==
  /\ [][(~gameOver /\ FrameStepLate) =>
          (gameOver' <=>
             \E i \in DOMAIN obstacles' :
               LET o == obstacles'[i]
               IN /\ Abs(car.x - o.x) < (car.width + o.width) \div 2
                  /\ Abs(car.y - o.y) < (car.height + o.height) \div 2)]_vars
  /\ [][(~gameOver /\ gameOver') => FrameStepLate]_vars
  /\ [](gameOver => highScore >= score)

\* a run has ended on an obstacle that still overlaps the car, with a score
\* above the high score it had loaded
C14_Witness ==
  /\ gameOver /\ score > loaded /\ highScore = score
  /\ \E i \in DOMAIN obstacles :
       /\ Abs(car.x - obstacles[i].x) < (carWidth + obstacleWidth) \div 2
       /\ Abs(car.y - obstacles[i].y) < (carHeight + obstacleHeight) \div 2

\* C15: a step spawns iff now - lastObstacleSpawn >= spawnObstacleInterval
\* (1000 ms) and then sets lastObstacleSpawn to now; a step spawns at most one
\* batch; two batches of a run are at least 1000 ms apart and the first comes
\* no earlier than 1000 ms after the start of the run.
C15_SpawnGate ==
  /\ [][(~gameOver /\ FrameStepGate) =>
          LET batch == Fresh(obstacles', speed')
          IN /\ batch # {} <=> now' - lastObstacleSpawn >= 1000
             /\ batch # {} =>
                  /\ lastObstacleSpawn' = now'
                  /\ Cardinality(batch) = Min(obstaclesPerSpawn, laneCount)
                  /\ Len(obstacles') <= Len(obstacles) + Cardinality(batch)
             /\ batch = {} =>
                  /\ lastObstacleSpawn' = lastObstacleSpawn
                  /\ Len(obstacles') <= Len(obstacles)]_vars
  /\ [][(lastObstacleSpawn' # lastObstacleSpawn /\ ~Restarted) =>
          (~gameOver /\ FrameStepGate
           /\ lastObstacleSpawn' >= lastObstacleSpawn + 1000)]_vars
  /\ [](/\ runStart <= lastObstacleSpawn /\ lastObstacleSpawn <= now
        /\ Spawned > 0 => lastObstacleSpawn >= runStart + 1000)

\* a frame came 999 ms after a batch and spawned nothing
C15_Witness ==
  /\ ~gameOver /\ obstacles # <<>>
  /\ now - lastObstacleSpawn = 999
  /\ Fresh(obstacles, speed) = {}

\* C16: while the run is on, a restart command restarts nothing: the space
\* key changes no variable at all, a pointer press only shifts the car, and
\* neither changes score, obstacles, speed, laneCount, the two timers or
\* gameOver; a run is started afresh only by a restart command given while
\* gameOver is true.
C16_NoRestartWhileRunning ==
  /\ [][(~gameOver /\ KeyDown(" ")) => UNCHANGED vars]_vars
  /\ [][\/ gameOver
        \/ UNCHANGED <<score, obstacles, speed, laneCount, lanesX,
                       lastObstacleSpawn, lastSpeedIncrease, gameOver,
                       highScore, extraLaneAdded, obstaclesPerSpawn,
                       runStart>>
        \/ ~(KeyDown(" ") \/ \E pointerX \in PointerXs :
                                PointerDown(pointerX))]_vars
  /\ [][runStart' # runStart =>
          /\ gameOver /\ ~gameOver'
          /\ KeyDown(" ") \/ \E pointerX \in PointerXs :
                               PointerDown(pointerX)]_vars

\* a run on the four-lane road with obstacles ahead, in which lane shifts
\* have taken the car into the added lane and no press has reset anything
C16_Witness ==
  /\ ~gameOver /\ runStart = 0 /\ score > scoreThreshold
  /\ speed > baseSpeed /\ obstacles # <<>>
  /\ car.lane = extraLaneCount - 1

\* C17: after every step every live obstacle has y - height < canvasHeight;
\* an obstacle leaves the list only in a step whose move takes it to
\* y - height >= canvasHeight, or by a restart, which empties the list:
\* scoring and collision remove nothing, and neither a key or pointer event
\* nor a frame of a run that is over changes the list.
C17_PruneOnly ==
  /\ [](\A i \in DOMAIN obstacles :
          obstacles[i].y - obstacles[i].height < canvasHeight)
  /\ [][IF Restarted THEN obstacles' = <<>>
        ELSE IF gameOver \/ Input THEN obstacles' = obstacles
        ELSE LET kept == {i \in DOMAIN obstacles :
                            obstacles[i].y + speed' - obstacles[i].height
                              < canvasHeight}
             IN /\ Len(obstacles') = Cardinality(kept)
                                       + Cardinality(Fresh(obstacles', speed'))
                /\ \A i \in kept : \E j \in DOMAIN obstacles' :
                     /\ obstacles'[j].lane = obstacles[i].lane
                     /\ obstacles'[j].x = obstacles[i].x
                     /\ obstacles'[j].y = obstacles[i].y + speed']_vars

\* the run has ended: the obstacle that ended it and an obstacle scored
\* earlier are both still on the road
C17_Witness ==
  /\ gameOver
  /\ \E i, j \in DOMAIN obstacles :
       /\ obstacles[i].scored /\ obstacles[i].y > car.y + carHeight \div 2
       /\ ~obstacles[j].scored /\ Abs(car.y - obstacles[j].y) < 90 * U
       /\ obstacles[j].lane = car.lane

\* C18: collisions are lane-exact, before and after the escalation: a step
\* ends the run iff, after its move and prune, some live obstacle has the
\* car's lane index and |car.y - o.y| < (car.height + o.height) / 2.
C18_LaneExactCollision ==
  [][(~gameOver /\ FrameStepLate) =>
       (gameOver' <=>
          \E i \in DOMAIN obstacles' :
            /\ obstacles'[i].lane = car.lane
            /\ Abs(car.y - obstacles'[i].y) < (carHeight + obstacleHeight) \div 2)]_vars

\* C19: no tunnelling, at any speed the ramp reaches: no step carries an
\* obstacle that shares the car's lane from above the car's vertical band
\* (|car.y - o.y| >= 90 with o above) to the band's lower end or beyond, where
\* it no longer overlaps the car and is scored; so an obstacle the car stays
\* in lane with ends the run before it is scored.
C19_NoTunnelling ==
  [][(~gameOver /\ FrameStepFast) =>
       \A i \in DOMAIN obstacles :
         (/\ obstacles[i].lane = car.lane
          /\ obstacles[i].y <= car.y - (carHeight + obstacleHeight) \div 2)
           => obstacles[i].y + speed'
                < car.y + (carHeight + obstacleHeight) \div 2]_vars

\* C20: progress: if frames keep occurring and the run does not reach
\* gameOver, every obstacle spawned is eventually scored and later pruned:
\* once the run has spawned n obstacles, either it ends or its score reaches
\* n, and once its score is n, either it ends or n scored obstacles have been
\* pruned.
C20_Progress ==
  \A n \in 1..MaxSpawned :
    /\ (~gameOver /\ Spawned >= n) ~> (gameOver \/ score >= n)
    /\ (~gameOver /\ score >= n) ~> (gameOver \/ prunedScored >= n)

\* the run is still on and every obstacle it spawned has been scored and
\* pruned
C20_Witness ==
  /\ ~gameOver /\ obstacles = <<>>
  /\ Spawned = MaxSpawned /\ prunedScored = Spawned /\ score = Spawned

====
